---- MODULE Spec2Model ----
(***************************************************************************)
(* Model of dynamite's CUDA backend (bcuda_impl.cu, two generations):      *)
(*   - the subspace codecs S2I_CUDA_x / I2S_CUDA_x (state <-> index),      *)
(*   - the device transfer / teardown of the codec data,                   *)
(*     CopySubspaceData_CUDA_x / DestroySubspaceData_CUDA_x,               *)
(*   - the vector factory MatCreateVecs_GPU.                               *)
(* "part_000" is the generation with SpinConserve and the binary-search    *)
(* Auto codec; "bcuda" is src/dynamite/_backend/bcuda_impl.cu (drop-high-  *)
(* bit Parity, dense reverse table Auto).                                  *)
(***************************************************************************)
EXTENDS Integers, Sequences, FiniteSets

VARIABLES
  build,    \* SpecParity: the build: width of PetscInt, outcome of an over-wide int shift
  codec,    \* SpecParity, SpecCodec: which codec the data belongs to
  data,     \* SpecParity, SpecCodec: the codec data struct (data_Parity / data_SpinConserve)
  call,     \* SpecParity, SpecCodec: the last S2I / I2S call: [fn, arg, ret, reads]
  auto,     \* SpecAuto: the data_Auto struct of part_000 (dim, rmap_states, rmap_indices)
  acall,    \* SpecAuto: the last S2I_CUDA_Auto call: [fn, state, oob, ret, reads]
  mcv,      \* SpecVec: the last MatCreateVecs_GPU call and what it left behind
  devmem,   \* SpecMem: the device memory, address -> content of the allocation there
  handles,  \* SpecMem: the codec handles their owners hold (transferred, not torn down)
  last,     \* SpecMem: the last transfer / teardown call and what it did
  faults    \* SpecMem: the number of calls in which a CUDA / PETSc call failed so far

codecVars == <<build, codec, data, call>>
autoVars == <<auto, acall>>
vecVars == <<mcv>>
memVars == <<devmem, handles, last, faults>>
vars == <<build, codec, data, call, auto, acall, mcv, devmem, handles, last, faults>>

(***************************************************************************)
(* Bounds                                                                  *)
(***************************************************************************)
\* largest site count L of a SpinConserve subspace, and largest site count for which
\* the Parity sector is enumerated in full
MaxL == 4
\* a state / index offered to a Parity codec has at most this many one bits, or at
\* most this many zero bits below its width
MaxWeight == 1
\* largest padding of the nchoosek row stride beyond its L+1 columns
MaxPad == 1
\* largest basis state of an Auto subspace, and of a state looked up in it
MaxState == 4
\* largest dimension dim of an Auto subspace
MaxDim == 3
\* largest global row / column count of an operator
MaxSize == 3
\* number of device addresses an allocation can be placed at
MaxAddr == 4
\* largest number of codec handles held at a time
MaxHandles == 2
\* largest number of transfer / teardown calls in which a call fails
MaxFaults == 1

(***************************************************************************)
(* PetscInt arithmetic of the SpinConserve and Auto codecs.  Every operand  *)
(* there has type PetscInt and every value is below 2^(MaxL+1), so no       *)
(* operation leaves the range of either PetscInt width and the integers     *)
(* compute what the code computes.                                          *)
(***************************************************************************)
RECURSIVE Pow2(_)
Pow2(n) ==
  IF n <= 0 THEN 1 ELSE 2 * Pow2(n - 1)

\* x >> n
ShiftR(x, n) ==
  x \div Pow2(n)

\* x << n
ShiftL(x, n) ==
  x * Pow2(n)

RECURSIVE BitOr(_, _)
BitOr(x, y) ==
  IF x = 0 THEN y
  ELSE IF y = 0 THEN x
  ELSE (IF x % 2 = 1 \/ y % 2 = 1 THEN 1 ELSE 0) + 2 * BitOr(x \div 2, y \div 2)

\* __popc / __popcll
RECURSIVE CUDA_POPCOUNT(_)
CUDA_POPCOUNT(x) ==
  IF x = 0 THEN 0 ELSE (x % 2) + CUDA_POPCOUNT(x \div 2)

(***************************************************************************)
(* Machine words of the Parity codecs.  The drop-high-bit codec shifts the  *)
(* int literal 1, so the width of int and of PetscInt decide its result,    *)
(* and site counts go up to the width of PetscInt.  A value of either type  *)
(* is the set of the positions of its one bits in two's complement: {} is   *)
(* 0, {0, 2} is 5, 0 .. w-1 is -1 in a w-bit type.                          *)
(***************************************************************************)
\* the width of int, the type of the literal 1 in PARITY_BIT
IntBits == 32

\* the width of PetscInt: 64 with PETSC_USE_64BIT_INDICES, 32 without
PetscIntWidths ==
  {32, 64}

\* 1<<n with n >= IntBits is undefined.  The builds produce one of two values:
\* "mod" shifts by n modulo the width (the host's shift instruction), "zero"
\* shifts every bit out (the device's shl clamps the count to the width).
ShiftOutcomes ==
  {"mod", "zero"}

Builds ==
  [PetscIntBits : PetscIntWidths, shl : ShiftOutcomes]

\* the word of the integer 0 or 1
WordOfBit(bit) ==
  IF bit = 1 THEN {0} ELSE {}

\* x & y
WordAnd(x, y) ==
  x \cap y

\* x | y
WordOr(x, y) ==
  x \cup y

\* x ^ y
WordXor(x, y) ==
  (x \ y) \cup (y \ x)

\* x << n in a type of w bits, 0 <= n < w
WordShl(x, n, w) ==
  { p + n : p \in x } \cap (0 .. (w - 1))

\* x >> n for a non-negative x
WordShr(x, n) ==
  { p - n : p \in { q \in x : q >= n } }

\* x - 1 in a type of w bits: the lowest one bit is cleared and the bits below it
\* are set; 0 - 1 is -1, and INT_MIN - 1 wraps to INT_MAX
WordDec(x, w) ==
  IF x = {} THEN 0 .. (w - 1)
  ELSE LET low == CHOOSE p \in x : \A q \in x : p <= q
       IN  (x \ {low}) \cup (0 .. (low - 1))

\* the conversion of a value of a type of "from" bits to a type of "to" >= "from" bits
SignExtend(x, from, to) ==
  IF (from - 1) \in x THEN x \cup (from .. (to - 1)) ELSE x

\* __popc / __popcll of a word
CUDA_POPCOUNT_Word(x) ==
  Cardinality(x)

\* #define CUDA_PARITY(x) (CUDA_POPCOUNT(x)&1)
CUDA_PARITY(x) ==
  CUDA_POPCOUNT_Word(x) % 2

(***************************************************************************)
(* Parity codec, part_000 (the low bit is the dependent bit).  Every        *)
(* operand is a PetscInt.                                                   *)
(***************************************************************************)
\* (idx<<1) | (CUDA_PARITY(idx) ^ data->space)
I2S_CUDA_Parity(idx, d, b) ==
  WordOr(WordShl(idx, 1, b.PetscIntBits),
         WordXor(WordOfBit(CUDA_PARITY(idx)), WordOfBit(d.space)))

\* (CUDA_PARITY(state) == data->space) ? state>>1 : -1
S2I_CUDA_Parity(state, d, b) ==
  IF CUDA_PARITY(state) = d.space THEN WordShr(state, 1) ELSE 0 .. (b.PetscIntBits - 1)

(***************************************************************************)
(* Parity codec, bcuda_impl.cu (the high bit L-1 is the dependent bit)     *)
(***************************************************************************)
\* #define PARITY_BIT(L) (1<<((L)-1)): a shift of the int 1, whatever PetscInt is.
\* 1<<31 is INT_MIN; a count of IntBits or more takes the build's outcome.
PARITY_BIT(L, b) ==
  IF L - 1 < IntBits THEN WordShl({0}, L - 1, IntBits)
  ELSE IF b.shl = "mod" THEN WordShl({0}, (L - 1) % IntBits, IntBits)
  ELSE {}

\* #define PARITY_MASK(L) (PARITY_BIT(L)-1): an int
PARITY_MASK(L, b) ==
  WordDec(PARITY_BIT(L, b), IntBits)

\* state & PARITY_MASK(data->L): the int mask is converted to PetscInt
S2I_CUDA_Parity_bcuda(state, d, b) ==
  WordAnd(state, SignExtend(PARITY_MASK(d.L, b), IntBits, b.PetscIntBits))

\* idx | (( space ^ (__popc(idx)&1) ) << (L-1)): & binds tighter than ^, and
\* space is a PetscInt, so this shift is a PetscInt shift
I2S_CUDA_Parity_bcuda(idx, d, b) ==
  WordOr(idx, WordShl(WordXor(WordOfBit(d.space), WordOfBit(CUDA_POPCOUNT_Word(idx) % 2)),
                      d.L - 1, b.PetscIntBits))

(***************************************************************************)
(* SpinConserve codec (part_000)                                           *)
(***************************************************************************)
\* the binomial coefficient C(n, i) the host stores at nchoosek[i*ld + n]
RECURSIVE Choose(_, _)
Choose(n, i) ==
  IF i = 0 THEN 1
  ELSE IF n = 0 THEN 0
  ELSE Choose(n - 1, i - 1) + Choose(n - 1, i)

\* PetscInt len_nchoosek = (in->k+1)*in->ld_nchoosek
len_nchoosek(d) ==
  (d.k + 1) * d.ld_nchoosek

\* the flat table of a data_SpinConserve with the given L, k and row stride
NchoosekTable(L, k, ld) ==
  [j \in 0 .. ((k + 1) * ld - 1) |-> Choose(j % ld, j \div ld)]

\* data->nchoosek[r*data->ld_nchoosek + n].  A read outside the uploaded table
\* is recorded by the caller in "reads"; TableAccessInv shows none occurs for
\* the inputs of the codec, so the value given to it here is never used.
NchoosekRead(d, r, n) ==
  LET j == r * d.ld_nchoosek + n
  IN  IF j \in DOMAIN d.nchoosek THEN d.nchoosek[j] ELSE 0

\* mutant: the table entry is added before the running count is incremented
S2I_SpinConserve_body_AddFirst(n, st, d) ==
  LET bit == st.state % 2
      rd  == bit = 1 /\ st.k <= n
  IN  [state |-> ShiftR(st.state, 1),
       k     |-> IF bit = 1 THEN st.k + 1 ELSE st.k,
       idx   |-> IF rd THEN st.idx + NchoosekRead(d, st.k, n) ELSE st.idx,
       reads |-> IF rd THEN st.reads \cup {<<st.k, n>>} ELSE st.reads]

\* one iteration of the for loop, up to and including state >>= 1
S2I_SpinConserve_body(n, st, d) ==
  LET bit == st.state % 2
      k1  == IF bit = 1 THEN st.k + 1 ELSE st.k
      rd  == bit = 1 /\ k1 <= n
  IN  [state |-> ShiftR(st.state, 1),
       k     |-> k1,
       idx   |-> IF rd THEN st.idx + NchoosekRead(d, k1, n) ELSE st.idx,
       reads |-> IF rd THEN st.reads \cup {<<k1, n>>} ELSE st.reads]

\* for (n=0; n<data->L; ++n) { body; if (state == 0) return idx; } return idx;
RECURSIVE S2I_SpinConserve_for(_, _, _)
S2I_SpinConserve_for(n, st, d) ==
  IF n < d.L
  THEN LET s1 == S2I_SpinConserve_body(n, st, d)
       IN  IF s1.state = 0 THEN s1 ELSE S2I_SpinConserve_for(n + 1, s1, d)
  ELSE st

\* mutant: the population-count rejection is missing
S2I_SpinConserve_run_NoPopcountCheck(state, d) ==
  IF ShiftR(state, d.L) # 0 THEN [ret |-> -1, reads |-> {}]
  ELSE LET s == S2I_SpinConserve_for(0, [state |-> state, k |-> 0, idx |-> 0, reads |-> {}], d)
       IN  [ret |-> s.idx, reads |-> s.reads]

\* S2I_CUDA_SpinConserve with the set of table entries <<row, column>> it read
S2I_SpinConserve_run(state, d) ==
  IF ShiftR(state, d.L) # 0 THEN [ret |-> -1, reads |-> {}]
  ELSE IF CUDA_POPCOUNT(state) # d.k THEN [ret |-> -1, reads |-> {}]
  ELSE LET s == S2I_SpinConserve_for(0, [state |-> state, k |-> 0, idx |-> 0, reads |-> {}], d)
       IN  [ret |-> s.idx, reads |-> s.reads]

S2I_CUDA_SpinConserve(state, d) ==
  S2I_SpinConserve_run(state, d).ret

\* mutant: the comparison idx >= current is strict
I2S_SpinConserve_body_Strict(n, st, d) ==
  LET state1  == ShiftL(st.state, 1)
      rd      == ~(st.k > n - 1)
      current == IF rd THEN NchoosekRead(d, st.k, n - 1) ELSE 0
      reads1  == IF rd THEN st.reads \cup {<<st.k, n - 1>>} ELSE st.reads
  IN  IF st.idx > current
      THEN [state |-> BitOr(state1, 1), k |-> st.k - 1,
            idx |-> st.idx - current, reads |-> reads1]
      ELSE [state |-> state1, k |-> st.k, idx |-> st.idx, reads |-> reads1]

\* one iteration of the for loop of I2S_CUDA_SpinConserve
I2S_SpinConserve_body(n, st, d) ==
  LET state1  == ShiftL(st.state, 1)
      rd      == ~(st.k > n - 1)
      current == IF rd THEN NchoosekRead(d, st.k, n - 1) ELSE 0
      reads1  == IF rd THEN st.reads \cup {<<st.k, n - 1>>} ELSE st.reads
  IN  IF st.idx >= current
      THEN [state |-> BitOr(state1, 1), k |-> st.k - 1,
            idx |-> st.idx - current, reads |-> reads1]
      ELSE [state |-> state1, k |-> st.k, idx |-> st.idx, reads |-> reads1]

\* for (n=data->L; n>0; --n) body
RECURSIVE I2S_SpinConserve_for(_, _, _)
I2S_SpinConserve_for(n, st, d) ==
  IF n > 0 THEN I2S_SpinConserve_for(n - 1, I2S_SpinConserve_body(n, st, d), d) ELSE st

\* I2S_CUDA_SpinConserve with the set of table entries <<row, column>> it read
I2S_SpinConserve_run(idx, d) ==
  LET s == I2S_SpinConserve_for(d.L, [state |-> 0, k |-> d.k, idx |-> idx, reads |-> {}], d)
  IN  [ret |-> s.state, reads |-> s.reads]

I2S_CUDA_SpinConserve(idx, d) ==
  I2S_SpinConserve_run(idx, d).ret

(***************************************************************************)
(* SpecParity, SpecCodec: a codec's data is fixed at construction; kernels *)
(* then call its encode / decode functions on arbitrary arguments          *)
(***************************************************************************)
\* an L-bit state fits a PetscInt of the build
Data_Parity(b) ==
  [L : 1 .. (b.PetscIntBits - 1), space : {0, 1}]

\* the words with at most w one bits, all at positions in P
RECURSIVE SparseWords(_, _)
SparseWords(P, w) ==
  IF w = 0 THEN {{}}
  ELSE LET S == SparseWords(P, w - 1)
       IN  S \cup { x \cup {p} : x \in S, p \in P }

\* the words of n bits offered to a Parity codec: those with at most MaxWeight one
\* bits and those with at most MaxWeight zero bits
SampleWords(n) ==
  LET P == 0 .. (n - 1)
  IN  SparseWords(P, MaxWeight) \cup { P \ x : x \in SparseWords(P, MaxWeight) }

Data_SpinConserve ==
  { [L |-> L, k |-> k, ld_nchoosek |-> ld, nchoosek |-> NchoosekTable(L, k, ld)] :
      <<L, k, ld>> \in { t \in (0 .. MaxL) \X (0 .. MaxL) \X (1 .. (MaxL + 1 + MaxPad)) :
                           t[2] <= t[1] /\ t[3] >= t[1] + 1 /\ t[3] <= t[1] + 1 + MaxPad } }

NoCall ==
  [fn |-> "none", arg |-> 0, ret |-> 0, reads |-> {}]

\* the values the variables of the other specifications keep
NoBuild ==
  [PetscIntBits |-> 0, shl |-> "none"]

NoCodec ==
  "none"

NoData ==
  [L |-> 0]

NoAuto ==
  [dim |-> 0, rmap_states |-> [j \in {} |-> 0], rmap_indices |-> [j \in {} |-> 0]]

NoAutoCall ==
  [fn |-> "none", state |-> 0, oob |-> <<0, 0>>, ret |-> 0, reads |-> {}]

NoMem ==
  <<>>

NoMemCall ==
  [op |-> "none", codec |-> "none", fail |-> 0, ret |-> 0, before |-> {},
   made |-> {}, frees |-> <<>>, owned |-> {}]

NoMatCreateVecs ==
  [fn |-> "none", mat |-> [M |-> 0, N |-> 0]]

InitParity ==
  /\ build \in Builds
  /\ codec \in {"Parity", "Parity_bcuda"}
  /\ data \in Data_Parity(build)
  /\ call = NoCall
  /\ auto = NoAuto /\ acall = NoAutoCall
  /\ mcv = NoMatCreateVecs
  /\ devmem = NoMem /\ handles = {} /\ last = NoMemCall /\ faults = 0

Call_S2I_Parity ==
  /\ codec = "Parity"
  /\ \E state \in SampleWords(data.L) :
       call' = [fn |-> "S2I", arg |-> state,
                ret |-> S2I_CUDA_Parity(state, data, build), reads |-> {}]
  /\ UNCHANGED <<build, codec, data, autoVars, vecVars, memVars>>

Call_I2S_Parity ==
  /\ codec = "Parity"
  /\ \E idx \in SampleWords(data.L - 1) :
       call' = [fn |-> "I2S", arg |-> idx,
                ret |-> I2S_CUDA_Parity(idx, data, build), reads |-> {}]
  /\ UNCHANGED <<build, codec, data, autoVars, vecVars, memVars>>

Call_S2I_Parity_bcuda ==
  /\ codec = "Parity_bcuda"
  /\ \E state \in SampleWords(data.L) :
       call' = [fn |-> "S2I", arg |-> state,
                ret |-> S2I_CUDA_Parity_bcuda(state, data, build), reads |-> {}]
  /\ UNCHANGED <<build, codec, data, autoVars, vecVars, memVars>>

Call_I2S_Parity_bcuda ==
  /\ codec = "Parity_bcuda"
  /\ \E idx \in SampleWords(data.L - 1) :
       call' = [fn |-> "I2S", arg |-> idx,
                ret |-> I2S_CUDA_Parity_bcuda(idx, data, build), reads |-> {}]
  /\ UNCHANGED <<build, codec, data, autoVars, vecVars, memVars>>

NextParity ==
  \/ Call_S2I_Parity
  \/ Call_I2S_Parity
  \/ Call_S2I_Parity_bcuda
  \/ Call_I2S_Parity_bcuda

SpecParity ==
  InitParity /\ [][NextParity]_vars

InitCodec ==
  /\ build = NoBuild
  /\ codec = "SpinConserve"
  /\ data \in Data_SpinConserve
  /\ call = NoCall
  /\ auto = NoAuto /\ acall = NoAutoCall
  /\ mcv = NoMatCreateVecs
  /\ devmem = NoMem /\ handles = {} /\ last = NoMemCall /\ faults = 0

\* any state of up to L+1 bits may be offered to the encoder
Call_S2I_SpinConserve ==
  /\ codec = "SpinConserve"
  /\ \E state \in 0 .. (Pow2(data.L + 1) - 1) :
       LET r == S2I_SpinConserve_run(state, data)
       IN  call' = [fn |-> "S2I", arg |-> state, ret |-> r.ret, reads |-> r.reads]
  /\ UNCHANGED <<build, codec, data, autoVars, vecVars, memVars>>

\* the decoder is called with indices of the subspace, [0, C(L,k))
Call_I2S_SpinConserve ==
  /\ codec = "SpinConserve"
  /\ \E idx \in 0 .. (Choose(data.L, data.k) - 1) :
       LET r == I2S_SpinConserve_run(idx, data)
       IN  call' = [fn |-> "I2S", arg |-> idx, ret |-> r.ret, reads |-> r.reads]
  /\ UNCHANGED <<build, codec, data, autoVars, vecVars, memVars>>

NextCodec ==
  \/ Call_S2I_SpinConserve
  \/ Call_I2S_SpinConserve

SpecCodec ==
  InitCodec /\ [][NextCodec]_vars

(***************************************************************************)
(* Properties of the codecs (SpecParity, SpecCodec)                        *)
(***************************************************************************)
\* the L-bit states of population count k: the members of a SpinConserve subspace
MembersSpinConserve(d) ==
  { s \in 0 .. (Pow2(d.L) - 1) : CUDA_POPCOUNT(s) = d.k }

\* the word is an L-bit state whose population count has the target parity
InParitySector(s, d) ==
  s \subseteq (0 .. (d.L - 1)) /\ Cardinality(s) % 2 = d.space

\* the word is an index of the Parity subspace, in [0, 2^(L-1))
InParityRange(i, d) ==
  i \subseteq (0 .. (d.L - 2))

\* C3: SpinConserve round trip.  With nchoosek[i*ld + n] = C(n,i): decode(encode(s)) = s
\* for every L-bit state s of population count k, encode(decode(i)) = i for every
\* index i in [0, C(L,k)), and decode maps [0, C(L,k)) onto exactly C(L,k) distinct
\* states, each of population count k and below 2^L.  The last call made agrees.
RoundTripSpinConserve ==
  codec = "SpinConserve" =>
    LET dim   == Choose(data.L, data.k)
        image == { I2S_CUDA_SpinConserve(i, data) : i \in 0 .. (dim - 1) }
    IN  /\ \A s \in MembersSpinConserve(data) :
             I2S_CUDA_SpinConserve(S2I_CUDA_SpinConserve(s, data), data) = s
        /\ \A i \in 0 .. (dim - 1) :
             S2I_CUDA_SpinConserve(I2S_CUDA_SpinConserve(i, data), data) = i
        /\ Cardinality(image) = dim
        /\ image = MembersSpinConserve(data)
        /\ (call.fn = "I2S" =>
              /\ call.ret \in MembersSpinConserve(data)
              /\ S2I_CUDA_SpinConserve(call.ret, data) = call.arg)
        /\ (call.fn = "S2I" /\ call.arg \in MembersSpinConserve(data) =>
              /\ call.ret \in 0 .. (dim - 1)
              /\ I2S_CUDA_SpinConserve(call.ret, data) = call.arg)

\* L = 4, k = 2: index 5 has been decoded to 0b1100
RoundTripSpinConserveWitness ==
  /\ codec = "SpinConserve" /\ data.L = 4 /\ data.k = 2
  /\ call.fn = "I2S" /\ call.arg = 5 /\ call.ret = 12

\* decode and encode of the variant in use are inverse to each other between
\* [0, 2^(L-1)) and the parity sector: on the last call made, and, for L <= MaxL,
\* on every index and every state of the sector
ParityInverse ==
  LET Dec(i)  == IF codec = "Parity" THEN I2S_CUDA_Parity(i, data, build)
                 ELSE I2S_CUDA_Parity_bcuda(i, data, build)
      Enc(s)  == IF codec = "Parity" THEN S2I_CUDA_Parity(s, data, build)
                 ELSE S2I_CUDA_Parity_bcuda(s, data, build)
      indices == SUBSET (0 .. (data.L - 2))
      members == { s \in SUBSET (0 .. (data.L - 1)) : InParitySector(s, data) }
      image   == { Dec(i) : i \in indices }
  IN  /\ (call.fn = "I2S" =>
            /\ InParitySector(call.ret, data)
            /\ Enc(call.ret) = call.arg)
      /\ (call.fn = "S2I" /\ InParitySector(call.arg, data) =>
            /\ InParityRange(call.ret, data)
            /\ Dec(call.ret) = call.arg)
      /\ (data.L <= MaxL =>
            /\ image = members
            /\ Cardinality(image) = Cardinality(indices)
            /\ \A i \in indices : Enc(Dec(i)) = i
            /\ \A s \in members : Dec(Enc(s)) = s)

\* C4: Parity bijection.  In each variant and for every site count L >= 1,
\* I2S_CUDA_Parity maps [0, 2^(L-1)) one-to-one onto exactly the L-bit states whose
\* population count mod 2 equals space, and S2I_CUDA_Parity of the same variant
\* inverts it in both directions.
ParityBijection ==
  codec \in {"Parity", "Parity_bcuda"} => ParityInverse

\* the same for the low-bit variant at every L, and for the high-bit variant at
\* the site counts whose PARITY_BIT the int shift can produce
ParityBijectionWithinInt ==
  (codec = "Parity" \/ (codec = "Parity_bcuda" /\ data.L <= IntBits)) => ParityInverse

\* 64-bit PetscInt, L = 33, space = 0, high-bit variant: the member 2^33 - 3 of the
\* sector has been encoded, and not to its index 2^32 - 3
ParityHighBitLost ==
  /\ codec = "Parity_bcuda" /\ build.PetscIntBits = 64 /\ data.L = 33 /\ data.space = 0
  /\ call.fn = "S2I" /\ call.arg = (0 .. 32) \ {1}
  /\ call.ret # (0 .. 31) \ {1}

\* the number of set bits of s at positions below n
OnesBelow(s, n) ==
  CUDA_POPCOUNT(s % Pow2(n))

\* the sum of table[row*stride + n] over the set bits n < L of s with row <= n,
\* where row is the number of set bits below n, plus inc
RECURSIVE RankSum(_, _, _, _)
RankSum(s, n, d, inc) ==
  IF n >= d.L THEN 0
  ELSE (IF ShiftR(s, n) % 2 = 1 /\ OnesBelow(s, n) + inc <= n
        THEN d.nchoosek[(OnesBelow(s, n) + inc) * d.ld_nchoosek + n] ELSE 0)
       + RankSum(s, n + 1, d, inc)

\* the ranking as spec.md words it: the running count is compared and used as the
\* table row before it is incremented
RankAddThenIncrement(s, d) ==
  RankSum(s, 0, d, 0)

\* the ranking with the running count incremented before it is compared and used
RankIncrementThenAdd(s, d) ==
  RankSum(s, 0, d, 1)

\* the state is rejected: it has a bit at a position >= L or its weight is not k
RejectedSpinConserve(s, d) ==
  s >= Pow2(d.L) \/ CUDA_POPCOUNT(s) # d.k

\* C6 as stated: S2I_CUDA_SpinConserve returns -1 for a state with a bit at a
\* position >= L or of population count # k, and otherwise the accumulator obtained
\* by adding table[kk*stride + n] whenever bit n is set and the current kk <= n and
\* then incrementing kk.
RankingAsDescribed ==
  codec = "SpinConserve" /\ call.fn = "S2I" =>
    call.ret = IF RejectedSpinConserve(call.arg, data) THEN -1
               ELSE RankAddThenIncrement(call.arg, data)

\* C6 amended: as above, but whenever bit n is set kk is incremented first and
\* table[kk*stride + n] is added if the incremented kk <= n.
RankingIncrementFirst ==
  codec = "SpinConserve" /\ call.fn = "S2I" =>
    call.ret = IF RejectedSpinConserve(call.arg, data) THEN -1
               ELSE RankIncrementThenAdd(call.arg, data)

\* L = 4, k = 2: state 0b1100 has been encoded to C(2,1) + C(3,2) = 5
RankingWitness ==
  /\ codec = "SpinConserve" /\ data.L = 4 /\ data.k = 2
  /\ call.fn = "S2I" /\ call.arg = 12 /\ call.ret = 5
  /\ call.reads = {<<1, 2>>, <<2, 3>>}

\* C10: every table read nchoosek[r*ld_nchoosek + n] of an encode of any state and
\* of a decode of any index in [0, C(L,k)) has row 0 <= r <= k and column
\* 0 <= n <= L-1, hence lies inside the (k+1)*ld_nchoosek uploaded entries.
TableAccessInv ==
  codec = "SpinConserve" =>
    \A rd \in call.reads :
      /\ 0 <= rd[1] /\ rd[1] <= data.k
      /\ 0 <= rd[2] /\ rd[2] <= data.L - 1
      /\ 0 <= rd[1] * data.ld_nchoosek + rd[2]
      /\ rd[1] * data.ld_nchoosek + rd[2] < len_nchoosek(data)

\* a decode has read the last row at the last column the codec uses
TableAccessWitness ==
  /\ codec = "SpinConserve" /\ data.k >= 1 /\ data.L > data.k
  /\ call.fn = "I2S"
  /\ <<data.k, data.L - 1>> \in call.reads
  /\ \E rd \in call.reads : rd[1] = 0

(***************************************************************************)
(* Auto codec, part_000: binary search over the sorted reverse map         *)
(***************************************************************************)
\* data->rmap_states[mid].  The arrays hold dim entries; entry dim is the memory
\* behind the array, whose content oob = <<cell behind rmap_states, cell behind
\* rmap_indices>> is whatever the device memory holds there.
RmapStatesAt(d, mid, oob) ==
  IF mid \in DOMAIN d.rmap_states THEN d.rmap_states[mid] ELSE oob[1]

\* data->rmap_indices[mid]
RmapIndicesAt(d, mid, oob) ==
  IF mid \in DOMAIN d.rmap_indices THEN d.rmap_indices[mid] ELSE oob[2]

\* while (left <= right) { mid = left + (right-left)/2; ... } return -1;
RECURSIVE S2I_Auto_while(_, _, _, _, _, _)
S2I_Auto_while(left, right, reads, state, d, oob) ==
  IF left <= right
  THEN LET mid == left + (right - left) \div 2
           v   == RmapStatesAt(d, mid, oob)
       IN  IF v = state
           THEN [ret |-> RmapIndicesAt(d, mid, oob), reads |-> reads \cup {mid}]
           ELSE IF v < state
           THEN S2I_Auto_while(mid + 1, right, reads \cup {mid}, state, d, oob)
           ELSE S2I_Auto_while(left, mid - 1, reads \cup {mid}, state, d, oob)
  ELSE [ret |-> -1, reads |-> reads]

\* S2I_CUDA_Auto with the set of array positions mid it read: left = 0, right = dim
S2I_Auto_run(state, d, oob) ==
  S2I_Auto_while(0, d.dim, {}, state, d, oob)

S2I_CUDA_Auto(state, d, oob) ==
  S2I_Auto_run(state, d, oob).ret

(***************************************************************************)
(* SpecAuto: an Auto subspace is fixed at construction; kernels then look  *)
(* up arbitrary states in it                                               *)
(***************************************************************************)
\* the elements of S in ascending order, as a C array indexed from 0
Ascending(S) ==
  [j \in 0 .. (Cardinality(S) - 1) |->
     CHOOSE x \in S : Cardinality({y \in S : y < x}) = j]

\* the one-to-one maps of 0 .. n-1 onto itself
Permutations(n) ==
  { f \in [0 .. (n - 1) -> 0 .. (n - 1)] : \A i, j \in 0 .. (n - 1) : f[i] = f[j] => i = j }

\* rmap_states strictly ascending, rmap_indices the index of each of its states
Data_Auto ==
  UNION { { [dim |-> Cardinality(S), rmap_states |-> Ascending(S), rmap_indices |-> p] :
              p \in Permutations(Cardinality(S)) } :
          S \in { T \in SUBSET (0 .. MaxState) : Cardinality(T) <= MaxDim } }

\* what a cell behind the end of an array may hold
Garbage ==
  -1 .. MaxState

InitAuto ==
  /\ auto \in Data_Auto
  /\ acall = NoAutoCall
  /\ build = NoBuild /\ codec = NoCodec /\ data = NoData /\ call = NoCall
  /\ mcv = NoMatCreateVecs
  /\ devmem = NoMem /\ handles = {} /\ last = NoMemCall /\ faults = 0

Call_S2I_Auto ==
  /\ \E state \in 0 .. MaxState, oob \in Garbage \X Garbage :
       LET r == S2I_Auto_run(state, auto, oob)
       IN  acall' = [fn |-> "S2I", state |-> state, oob |-> oob,
                     ret |-> r.ret, reads |-> r.reads]
  /\ UNCHANGED <<auto, codecVars, vecVars, memVars>>

NextAuto ==
  Call_S2I_Auto

SpecAuto ==
  InitAuto /\ [][NextAuto]_vars

\* the reference lookup: the index stored for the state, or the sentinel -1
ReferenceLookup(state, d) ==
  IF \E j \in 0 .. (d.dim - 1) : d.rmap_states[j] = state
  THEN d.rmap_indices[CHOOSE j \in 0 .. (d.dim - 1) : d.rmap_states[j] = state]
  ELSE -1

\* C5: for every strictly ascending rmap_states of length dim >= 0 and every state,
\* S2I_CUDA_Auto returns rmap_indices[j] when rmap_states[j] = state for some j in
\* [0, dim), and the sentinel -1 when there is no such j (dim = 0 included).
AutoLookupCorrect ==
  acall.fn = "S2I" => acall.ret = ReferenceLookup(acall.state, auto)

\* C8: every read of rmap_states[mid] and rmap_indices[mid] during the search uses
\* an index 0 <= mid < dim.
AutoReadsInBounds ==
  acall.fn = "S2I" => \A mid \in acall.reads : 0 <= mid /\ mid < auto.dim

(***************************************************************************)
(* Vector factory MatCreateVecs_GPU (the same text in both generations)    *)
(***************************************************************************)
\* a caller's Vec variable that was never written
NoVec ==
  [exists |-> FALSE, N |-> -1, fromOptions |-> FALSE]

\* the calls MatCreateVecs_GPU makes, in program order
MatCreateVecsCalls ==
  {"MatGetSize", "VecCreate_right", "VecSetSizes_right", "VecSetFromOptions_right",
   "VecCreate_left", "VecSetSizes_left", "VecSetFromOptions_left"}

\* if (out) { VecCreate(comm,out); CHKERRQ; VecSetSizes(*out,PETSC_DECIDE,size); CHKERRQ;
\*            ierr = VecSetFromOptions(*out); }      (ierr is not checked after the last)
\* fails: the calls that return an error when made.  ret # 0: CHKERRQ returned.
\* A failed VecCreate creates no vector; failed: some call made here failed.
CreateVec(out, size, side, fails) ==
  IF ~out
  THEN [ret |-> 0, vec |-> NoVec, failed |-> FALSE]
  ELSE IF ("VecCreate_" \o side) \in fails
  THEN [ret |-> 1, vec |-> NoVec, failed |-> TRUE]
  ELSE IF ("VecSetSizes_" \o side) \in fails
  THEN [ret |-> 1, vec |-> [exists |-> TRUE, N |-> -1, fromOptions |-> FALSE], failed |-> TRUE]
  ELSE [ret |-> 0,
        vec |-> [exists |-> TRUE, N |-> size,
                 fromOptions |-> ("VecSetFromOptions_" \o side) \notin fails],
        failed |-> ("VecSetFromOptions_" \o side) \in fails]

\* mutant: the right vector is sized by the row count and the left by the column count
MatCreateVecs_GPU_Swapped(mat, right, left, fails) ==
  IF "MatGetSize" \in fails
  THEN [ret |-> 1, right |-> NoVec, left |-> NoVec, failed |-> TRUE]
  ELSE LET r == CreateVec(right, mat.M, "right", fails)
       IN  IF r.ret # 0
           THEN [ret |-> r.ret, right |-> r.vec, left |-> NoVec, failed |-> TRUE]
           ELSE LET l == CreateVec(left, mat.N, "left", fails)
                IN  IF l.ret # 0
                    THEN [ret |-> l.ret, right |-> r.vec, left |-> l.vec, failed |-> TRUE]
                    ELSE [ret |-> 0, right |-> r.vec, left |-> l.vec,
                          failed |-> r.failed \/ l.failed]

\* right, left: whether the output pointer is non-null.  The result holds the
\* return code and the caller's two Vec variables after the call.
MatCreateVecs_GPU(mat, right, left, fails) ==
  IF "MatGetSize" \in fails
  THEN [ret |-> 1, right |-> NoVec, left |-> NoVec, failed |-> TRUE]
  ELSE LET r == CreateVec(right, mat.N, "right", fails)
       IN  IF r.ret # 0
           THEN [ret |-> r.ret, right |-> r.vec, left |-> NoVec, failed |-> TRUE]
           ELSE LET l == CreateVec(left, mat.M, "left", fails)
                IN  IF l.ret # 0
                    THEN [ret |-> l.ret, right |-> r.vec, left |-> l.vec, failed |-> TRUE]
                    ELSE [ret |-> 0, right |-> r.vec, left |-> l.vec,
                          failed |-> r.failed \/ l.failed]

(***************************************************************************)
(* SpecVec: an operator has fixed global sizes; vectors are requested for  *)
(* it any number of times, and any of the PETSc calls may fail             *)
(***************************************************************************)
InitVec ==
  /\ \E M \in 1 .. MaxSize, N \in 1 .. MaxSize :
       mcv = [fn |-> "none", mat |-> [M |-> M, N |-> N]]
  /\ build = NoBuild /\ codec = NoCodec /\ data = NoData /\ call = NoCall
  /\ auto = NoAuto /\ acall = NoAutoCall
  /\ devmem = NoMem /\ handles = {} /\ last = NoMemCall /\ faults = 0

Call_MatCreateVecs_GPU ==
  /\ \E right \in BOOLEAN, left \in BOOLEAN, fails \in SUBSET MatCreateVecsCalls :
       LET r == MatCreateVecs_GPU(mcv.mat, right, left, fails)
       IN  mcv' = [fn |-> "MatCreateVecs_GPU", mat |-> mcv.mat,
                   wantRight |-> right, wantLeft |-> left, fails |-> fails,
                   ret |-> r.ret, right |-> r.right, left |-> r.left, failed |-> r.failed]
  /\ UNCHANGED <<codecVars, autoVars, memVars>>

NextVec ==
  Call_MatCreateVecs_GPU

SpecVec ==
  InitVec /\ [][NextVec]_vars

\* C7: a call that returns 0 has created a right vector iff the right output pointer
\* is non-null, of global size N, and a left vector iff the left output pointer is
\* non-null, of global size M; an output that was not requested is neither created
\* nor written, whatever the call returns.
VecsCreatedAsRequested ==
  mcv.fn = "MatCreateVecs_GPU" =>
    /\ (~mcv.wantRight => mcv.right = NoVec)
    /\ (~mcv.wantLeft => mcv.left = NoVec)
    /\ (mcv.ret = 0 =>
          /\ mcv.right.exists <=> mcv.wantRight
          /\ mcv.left.exists <=> mcv.wantLeft
          /\ (mcv.wantRight => mcv.right.N = mcv.mat.N)
          /\ (mcv.wantLeft => mcv.left.N = mcv.mat.M))

\* a 2 x 3 operator: only the right vector was requested and has 3 entries
VecsCreatedWitness ==
  /\ mcv.fn = "MatCreateVecs_GPU" /\ mcv.ret = 0 /\ mcv.fails = {}
  /\ mcv.mat = [M |-> 2, N |-> 3]
  /\ mcv.wantRight /\ ~mcv.wantLeft
  /\ mcv.right = [exists |-> TRUE, N |-> 3, fromOptions |-> TRUE]
  /\ mcv.left = NoVec

\* C9: MatCreateVecs_GPU returns a nonzero error code whenever a call it made
\* (MatGetSize, VecCreate, VecSetSizes, VecSetFromOptions) failed.
VecErrorsPropagate ==
  mcv.fn = "MatCreateVecs_GPU" /\ mcv.failed => mcv.ret # 0

(***************************************************************************)
(* Device memory: cudaMalloc / cudaMemcpy / cudaFree                       *)
(***************************************************************************)
\* the device addresses
Addr ==
  1 .. MaxAddr

\* the pointer fields of the codec structs
PtrFields ==
  {"nchoosek", "state_map", "rmap_indices", "rmap_states", "state_rmap"}

\* a struct none of whose pointer fields is a device address: 0 stands for a host
\* address (in->nchoosek, ...) and for a field the codec's struct does not have
HostPtrs ==
  [f \in PtrFields |-> 0]

\* contents of a device address
MemFree ==
  [kind |-> "free", ptrs |-> HostPtrs]

MemUninit ==
  [kind |-> "uninit", ptrs |-> HostPtrs]

MemArray ==
  [kind |-> "array", ptrs |-> HostPtrs]

MemStruct(ptrs) ==
  [kind |-> "struct", ptrs |-> ptrs]

\* the live device allocations
Live(mem) ==
  { a \in Addr : mem[a].kind # "free" }

\* the calls of a transfer / teardown, in program order; each is followed by
\* CHKERRCUDA / CHKERRQ, which returns the error at once
Step(op, what) ==
  [op |-> op, what |-> what]

\* effect of the successful call "step" of a transfer on
\* st = [mem, cpu (cpu_data's pointer fields), out (*out_p), made, addrs, ret]
CopyStep(step, st) ==
  CASE step.op = "PetscMemcpy" ->
         [st EXCEPT !.cpu = HostPtrs]
    [] step.op = "cudaMalloc" /\ step.what = "struct" ->
         [st EXCEPT !.mem[Head(st.addrs)] = MemUninit, !.out = Head(st.addrs),
                    !.made = @ \cup {Head(st.addrs)}, !.addrs = Tail(@)]
    [] step.op = "cudaMalloc" /\ step.what # "struct" ->
         [st EXCEPT !.mem[Head(st.addrs)] = MemUninit, !.cpu[step.what] = Head(st.addrs),
                    !.made = @ \cup {Head(st.addrs)}, !.addrs = Tail(@)]
    [] step.op = "cudaMemcpy" /\ step.what = "struct" ->
         [st EXCEPT !.mem[st.out] = MemStruct(st.cpu)]
    [] step.op = "cudaMemcpy" /\ step.what # "struct" ->
         [st EXCEPT !.mem[st.cpu[step.what]] = MemArray]

\* the calls from the i-th on; the fail-th call returns an error (0: none does)
RECURSIVE RunCopy(_, _, _, _)
RunCopy(steps, i, fail, st) ==
  IF i > Len(steps) THEN st
  ELSE IF i = fail THEN [st EXCEPT !.ret = 1]
  ELSE RunCopy(steps, i + 1, fail, CopyStep(steps[i], st))

\* effect of the call "step" of a teardown on
\* st = [mem, cpu (cpu_data's pointer fields), data (the handle), frees, ret].
\* cudaFree of an address that is no live allocation returns an error.
DestroyStep(step, st) ==
  CASE step.op = "cudaMemcpy" ->
         [st EXCEPT !.cpu = st.mem[st.data].ptrs]
    [] step.op = "cudaFree" ->
         LET p == IF step.what = "struct" THEN st.data ELSE st.cpu[step.what]
         IN  IF p \in Live(st.mem)
             THEN [st EXCEPT !.mem[p] = MemFree, !.frees = Append(@, p)]
             ELSE [st EXCEPT !.ret = 1]

RECURSIVE RunDestroy(_, _, _, _)
RunDestroy(steps, i, fail, st) ==
  IF i > Len(steps) THEN st
  ELSE IF i = fail THEN [st EXCEPT !.ret = 1]
  ELSE LET s1 == DestroyStep(steps[i], st)
       IN  IF s1.ret # 0 THEN s1 ELSE RunDestroy(steps, i + 1, fail, s1)

(***************************************************************************)
(* The transfers and teardowns of the codecs                               *)
(***************************************************************************)
\* Full and Parity (the same text in both generations)
CopySubspaceData_CUDA_Full ==
  << Step("cudaMalloc", "struct"), Step("cudaMemcpy", "struct") >>

DestroySubspaceData_CUDA_Full ==
  << Step("cudaFree", "struct") >>

CopySubspaceData_CUDA_Parity ==
  << Step("cudaMalloc", "struct"), Step("cudaMemcpy", "struct") >>

DestroySubspaceData_CUDA_Parity ==
  << Step("cudaFree", "struct") >>

CopySubspaceData_CUDA_SpinConserve ==
  << Step("PetscMemcpy", "cpu_data"),
     Step("cudaMalloc", "nchoosek"), Step("cudaMemcpy", "nchoosek"),
     Step("cudaMalloc", "struct"), Step("cudaMemcpy", "struct") >>

DestroySubspaceData_CUDA_SpinConserve ==
  << Step("cudaMemcpy", "cpu_data"),
     Step("cudaFree", "nchoosek"), Step("cudaFree", "struct") >>

\* part_000: sorted parallel-array reverse map
CopySubspaceData_CUDA_Auto ==
  << Step("PetscMemcpy", "cpu_data"),
     Step("cudaMalloc", "state_map"), Step("cudaMemcpy", "state_map"),
     Step("cudaMalloc", "rmap_indices"), Step("cudaMemcpy", "rmap_indices"),
     Step("cudaMalloc", "rmap_states"), Step("cudaMemcpy", "rmap_states"),
     Step("cudaMalloc", "struct"), Step("cudaMemcpy", "struct") >>

\* mutant: rmap_states is not freed
DestroySubspaceData_CUDA_Auto_Leak ==
  << Step("cudaMemcpy", "cpu_data"),
     Step("cudaFree", "state_map"), Step("cudaFree", "rmap_indices"),
     Step("cudaFree", "struct") >>

DestroySubspaceData_CUDA_Auto ==
  << Step("cudaMemcpy", "cpu_data"),
     Step("cudaFree", "state_map"), Step("cudaFree", "rmap_indices"),
     Step("cudaFree", "rmap_states"), Step("cudaFree", "struct") >>

\* bcuda_impl.cu: dense reverse table
CopySubspaceData_CUDA_Auto_bcuda ==
  << Step("PetscMemcpy", "cpu_data"),
     Step("cudaMalloc", "state_map"), Step("cudaMemcpy", "state_map"),
     Step("cudaMalloc", "state_rmap"), Step("cudaMemcpy", "state_rmap"),
     Step("cudaMalloc", "struct"), Step("cudaMemcpy", "struct") >>

DestroySubspaceData_CUDA_Auto_bcuda ==
  << Step("cudaMemcpy", "cpu_data"),
     Step("cudaFree", "state_map"), Step("cudaFree", "state_rmap"),
     Step("cudaFree", "struct") >>

(***************************************************************************)
(* SpecMem: operators transfer codec data to the device and tear it down;  *)
(* any CUDA call may fail, and cudaMalloc fails when the device is full    *)
(***************************************************************************)
\* the number of cudaMalloc calls made when the fail-th call fails
MallocsMade(steps, fail) ==
  Cardinality({ i \in 1 .. Len(steps) :
                  steps[i].op = "cudaMalloc" /\ (fail = 0 \/ i < fail) })

\* the n lowest addresses of S, in ascending order
RECURSIVE Lowest(_, _)
Lowest(S, n) ==
  IF n = 0 \/ S = {} THEN <<>>
  ELSE LET a == CHOOSE x \in S : \A y \in S : x <= y
       IN  <<a>> \o Lowest(S \ {a}, n - 1)

\* the placements cudaMalloc may choose for n successive allocations: none when
\* fewer than n addresses are free.  The codecs never compute with or compare
\* addresses, so the allocator is taken to be first-fit.
Placements(mem, n) ==
  IF n > Cardinality(Addr \ Live(mem)) THEN {}
  ELSE { Lowest(Addr \ Live(mem), n) }

\* the calls that may be made to fail: none (0) once MaxFaults calls have failed
FailPoints(steps) ==
  IF faults < MaxFaults THEN 0 .. Len(steps) ELSE {0}

InitMem ==
  /\ devmem = [a \in Addr |-> MemFree]
  /\ handles = {}
  /\ last = NoMemCall
  /\ faults = 0
  /\ build = NoBuild /\ codec = NoCodec /\ data = NoData /\ call = NoCall
  /\ auto = NoAuto /\ acall = NoAutoCall
  /\ mcv = NoMatCreateVecs

\* a transfer of codec c; a handle is kept only when the transfer returned 0
Transfer(c, steps) ==
  /\ \E fail \in FailPoints(steps) :
       \E addrs \in Placements(devmem, MallocsMade(steps, fail)) :
         LET st == RunCopy(steps, 1, fail,
                           [mem |-> devmem, cpu |-> HostPtrs, out |-> 0, made |-> {},
                            addrs |-> addrs, ret |-> 0])
         IN  /\ devmem' = st.mem
             /\ handles' = IF st.ret = 0
                           THEN handles \cup {[codec |-> c, ptr |-> st.out, owned |-> st.made]}
                           ELSE handles
             /\ last' = [op |-> "Copy", codec |-> c, fail |-> fail, ret |-> st.ret,
                         before |-> Live(devmem), made |-> st.made, frees |-> <<>>,
                         owned |-> {}]
             /\ faults' = IF fail = 0 THEN faults ELSE faults + 1
  /\ UNCHANGED <<codecVars, autoVars, vecVars>>

\* the one teardown of the handle h
Teardown(h, steps) ==
  /\ \E fail \in FailPoints(steps) :
       LET st == RunDestroy(steps, 1, fail,
                            [mem |-> devmem, cpu |-> HostPtrs, data |-> h.ptr,
                             frees |-> <<>>, ret |-> 0])
       IN  /\ devmem' = st.mem
           /\ handles' = handles \ {h}
           /\ last' = [op |-> "Destroy", codec |-> h.codec, fail |-> fail, ret |-> st.ret,
                       before |-> Live(devmem), made |-> {}, frees |-> st.frees,
                       owned |-> h.owned]
           /\ faults' = IF fail = 0 THEN faults ELSE faults + 1
  /\ UNCHANGED <<codecVars, autoVars, vecVars>>

Call_Copy_Full ==
  /\ Cardinality(handles) < MaxHandles
  /\ Transfer("Full", CopySubspaceData_CUDA_Full)

Call_Destroy_Full ==
  \E h \in handles :
    /\ h.codec = "Full"
    /\ Teardown(h, DestroySubspaceData_CUDA_Full)

Call_Copy_Parity ==
  /\ Cardinality(handles) < MaxHandles
  /\ Transfer("Parity", CopySubspaceData_CUDA_Parity)

Call_Destroy_Parity ==
  \E h \in handles :
    /\ h.codec = "Parity"
    /\ Teardown(h, DestroySubspaceData_CUDA_Parity)

Call_Copy_SpinConserve ==
  /\ Cardinality(handles) < MaxHandles
  /\ Transfer("SpinConserve", CopySubspaceData_CUDA_SpinConserve)

Call_Destroy_SpinConserve ==
  \E h \in handles :
    /\ h.codec = "SpinConserve"
    /\ Teardown(h, DestroySubspaceData_CUDA_SpinConserve)

Call_Copy_Auto ==
  /\ Cardinality(handles) < MaxHandles
  /\ Transfer("Auto", CopySubspaceData_CUDA_Auto)

Call_Destroy_Auto ==
  \E h \in handles :
    /\ h.codec = "Auto"
    /\ Teardown(h, DestroySubspaceData_CUDA_Auto)

Call_Copy_Auto_bcuda ==
  /\ Cardinality(handles) < MaxHandles
  /\ Transfer("Auto_bcuda", CopySubspaceData_CUDA_Auto_bcuda)

Call_Destroy_Auto_bcuda ==
  \E h \in handles :
    /\ h.codec = "Auto_bcuda"
    /\ Teardown(h, DestroySubspaceData_CUDA_Auto_bcuda)

NextMem ==
  \/ Call_Copy_Full
  \/ Call_Destroy_Full
  \/ Call_Copy_Parity
  \/ Call_Destroy_Parity
  \/ Call_Copy_SpinConserve
  \/ Call_Destroy_SpinConserve
  \/ Call_Copy_Auto
  \/ Call_Destroy_Auto
  \/ Call_Copy_Auto_bcuda
  \/ Call_Destroy_Auto_bcuda

SpecMem ==
  InitMem /\ [][NextMem]_vars

\* C1: a transfer that returns an error code leaves the set of live device
\* allocations as it was before the call.
TransferAtomic ==
  last.op = "Copy" /\ last.ret # 0 => Live(devmem) = last.before

\* the addresses of a sequence
Range(s) ==
  { s[i] : i \in DOMAIN s }

\* C2: a teardown of a successfully transferred handle in which no CUDA call fails
\* returns 0 and frees every allocation the transfer made (the struct and each
\* auxiliary array) exactly once: none of them is live afterwards, none was freed
\* twice, nothing else was freed.
TeardownFreesAll ==
  last.op = "Destroy" /\ last.fail = 0 =>
    /\ last.ret = 0
    /\ last.owned \cap Live(devmem) = {}
    /\ Range(last.frees) = last.owned
    /\ Len(last.frees) = Cardinality(last.owned)
    /\ Live(devmem) = last.before \ last.owned

\* an Auto handle of part_000 was torn down: four distinct allocations were freed,
\* the struct last
TeardownFreesAllWitness ==
  /\ last.op = "Destroy" /\ last.codec = "Auto" /\ last.fail = 0 /\ last.ret = 0
  /\ Len(last.frees) = 4 /\ Cardinality(last.owned) = 4
  /\ last.owned \cap Live(devmem) = {}

====
